---- MODULE Spec2Model ----
(***************************************************************************)
(* MCPClient (src/mcp_client.py): a client that spawns a local server      *)
(* process, talks line-delimited JSON-RPC to it, keeps a session id and    *)
(* resolves tool calls requested by the server's completions.              *)
(*                                                                         *)
(* Strings are sequences of tokens: f"prefix: {x}" is <<"prefix">> \o x,   *)
(* "\n".join(lines) is the sequence of the lines, and "s contains t" is    *)
(* Contains(s, t).  Process instances are numbered 1, 2, ... in spawn      *)
(* order; 0 is Python's None.                                              *)
(*                                                                         *)
(* The foreground thread is sequential, so one send_jsonrpc_request call   *)
(* together with the code of its caller up to the caller's next request    *)
(* is one action; what the child does meanwhile (answering, staying        *)
(* silent, exiting, writing diagnostics) is the action's nondeterminism.   *)
(***************************************************************************)
EXTENDS Integers, Sequences, FiniteSets, TLC

VARIABLES
    process,        \* self.process: 0 (None) or the tracked process instance
    session_id,     \* self.session_id: "None" or the cached session id
    stderr_output,  \* self.stderr_output: the diagnostic lines read so far
    request_id,     \* self.request_id
    alive,          \* OS: the child processes of this client that are alive
    exitStatus,     \* OS: exit status of the tracked child (Running if none or alive)
    nextPid,        \* OS: the number the next spawned instance gets
    issued,         \* server: session ids the tracked instance has returned
    sessPid,        \* history: the instance that returned the cached session id
    alarmPending,   \* signal module: a SIGALRM is scheduled
    sigHandler,     \* signal module: the installed SIGALRM handler
    pipe,           \* stdout pipe of the tracked instance: ids of the
                    \* requests written whose response line was not read
    created,        \* history: the session id of the last createSession success
    drain,          \* the _read_stderr thread started with each instance
    tool,           \* call_tool: its tool_name (and tool_args) argument
    stopCalls,      \* history: stop_server invocations since the running call began
    lastReq,        \* history: the last request send_jsonrpc_request built
    lastResp,       \* history: how the last send_jsonrpc_request call ended
    op,             \* the public method being executed (or executed last)
    pc,             \* position inside it ("idle" between calls)
    cont,           \* the request that follows the pending create_session
    rounds,         \* get_completion: tool calls resolved so far for this message
    message_id,     \* get_completion: its message_id argument
    ret,            \* what the last call returned or raised
    cause,          \* history: text of the error that made the running call fail
    finallyStops    \* history: stop_server invocations made by a facade's finally

vars == <<process, session_id, stderr_output, request_id, alive, exitStatus,
          nextPid, issued, sessPid, alarmPending, sigHandler, pipe, created,
          drain, tool, stopCalls, lastReq, lastResp, op, pc, cont, rounds, message_id,
          ret, cause, finallyStops>>

---------------------------------------------------------------------------
(* Bounds of the model *)

MaxProcs == 2
MaxRequests == 4
MaxRounds == 1
MaxStderr == 1
LoopCap == 12

(* Values the server and the operating system can produce *)

NoProcess == 0
Running == -1
NoSession == "None"
SessionIds == {"abc", "xyz"}
MessageIds == {"m1"}
Contents == {"sunny"}
ToolNames == {"get_weather_by_city", "get_forecast"}
ToolResults == {"temp20"}
RawLines == {"not-json"}
RemoteErrors == {[message |-> "bad state", code |-> -1]}
ExitCodes == {0, 1}

Facades == {"query_weather", "direct_query_weather"}

(* A line the instance p writes on its stderr *)
DiagLine(p) == "stderr_of_" \o ToString(p)

(* s contains t as a substring *)
Contains(s, t) ==
    \E i \in 0..(Len(s) - Len(t)) : SubSeq(s, i + 1, i + Len(t)) = t

---------------------------------------------------------------------------
(* The client object with its environment, as one record *)

Self ==
    [process |-> process, session_id |-> session_id,
     stderr_output |-> stderr_output, request_id |-> request_id,
     alive |-> alive, exitStatus |-> exitStatus, nextPid |-> nextPid,
     issued |-> issued, sessPid |-> sessPid, alarmPending |-> alarmPending,
     sigHandler |-> sigHandler, pipe |-> pipe, created |-> created,
     drain |-> drain,
     stopCalls |-> stopCalls,
     lastReq |-> lastReq, lastResp |-> lastResp]

Becomes(c) ==
    /\ process' = c.process
    /\ session_id' = c.session_id
    /\ stderr_output' = c.stderr_output
    /\ request_id' = c.request_id
    /\ alive' = c.alive
    /\ exitStatus' = c.exitStatus
    /\ nextPid' = c.nextPid
    /\ issued' = c.issued
    /\ sessPid' = c.sessPid
    /\ alarmPending' = c.alarmPending
    /\ sigHandler' = c.sigHandler
    /\ pipe' = c.pipe
    /\ created' = c.created
    /\ drain' = c.drain
    /\ stopCalls' = c.stopCalls
    /\ lastReq' = c.lastReq
    /\ lastResp' = c.lastResp

(* The params of a request; a member that is not sent is "none" *)
NoParams == [sessionId |-> NoSession, messageId |-> "none", name |-> "none"]

NoReq ==
    [id |-> 0, method |-> "none", pid |-> NoProcess, written |-> FALSE,
     sessionId |-> NoSession, messageId |-> "none", name |-> "none",
     issuedAt |-> {}, cachedFrom |-> NoProcess, cached |-> NoSession,
     handlerBefore |-> "SIG_DFL"]

NoResp ==
    [event |-> "none", raised |-> FALSE, kind |-> "none", code |-> 0,
     message |-> <<>>, root |-> <<>>, field |-> "none", val |-> "none",
     srvCode |-> 0, id |-> 0, answers |-> 0, readFrom |-> NoProcess,
     stderrAt |-> <<>>, processAfter |-> NoProcess]

(* Diagnostic lines of the instance p the drain thread may have appended *)
(* in the meantime                                                        *)
Drained(out, p) ==
    {out} \cup (IF Len(out) < MaxStderr
                THEN {Append(out, DiagLine(p))} ELSE {})

---------------------------------------------------------------------------
(* MCPClient.stop_server.  terminate() asks the child to exit; the child   *)
(* may ignore it, and is then killed.  The handle is cleared either way.   *)
(* The invocation is counted also when no process is tracked.              *)

(* stop_server with the kill() of lines 111-113 left out *)
stop_server_no_kill(c) ==
    IF c.process = NoProcess
    THEN {[c EXCEPT !.stopCalls = @ + 1]}
    ELSE {[c EXCEPT !.process = NoProcess,
                    !.alive = IF ignoresTerm THEN @ ELSE @ \ {c.process},
                    !.exitStatus = Running,
                    !.pipe = <<>>,
                    !.stopCalls = @ + 1] : ignoresTerm \in BOOLEAN}

stop_server(c) ==
    IF c.process = NoProcess
    THEN {[c EXCEPT !.stopCalls = @ + 1]}
    ELSE {LET afterTerminate == IF ignoresTerm THEN c.alive
                                ELSE c.alive \ {c.process}
              afterKill == IF c.process \in afterTerminate
                           THEN afterTerminate \ {c.process}
                           ELSE afterTerminate
          IN  [c EXCEPT !.process = NoProcess,
                        !.alive = afterKill,
                        !.exitStatus = Running,
                        !.pipe = <<>>,
                        !.stopCalls = @ + 1] : ignoresTerm \in BOOLEAN}

(* f"服务器启动失败: {stderr}" *)
StartFailedText(stderr) == <<"start_failed">> \o stderr

(* A _read_stderr thread: where it is in its loop, and the instance     *)
(* whose stderr it is reading or has read a line from                    *)
NoThread == [pc |-> "none", src |-> NoProcess]

(* threading.Thread(target=self._read_stderr).start() *)
NewThread == [pc |-> "test", src |-> NoProcess]

(* subprocess.Popen: the new instance, tracked; the buffer is emptied    *)
(* and the instance's drain thread is started.                           *)
Spawn(c) ==
    [c EXCEPT !.process = c.nextPid,
              !.alive = @ \cup {c.nextPid},
              !.nextPid = @ + 1,
              !.exitStatus = Running,
              !.issued = {},
              !.pipe = <<>>,
              !.stderr_output = <<>>,
              !.drain[c.nextPid] = NewThread]

(* The two seconds of grace: diagnostics are drained, the child may exit. *)
(* The handle stays set when the child is found dead.                     *)
AfterGrace(c) ==
    UNION {
      {[c |-> [c EXCEPT !.stderr_output = out], raised |-> FALSE, err |-> <<>>]}
      \cup
      {[c |-> [c EXCEPT !.stderr_output = out,
                        !.alive = @ \ {c.process},
                        !.exitStatus = code],
        raised |-> TRUE, err |-> StartFailedText(out)] : code \in ExitCodes}
      : out \in Drained(c.stderr_output, c.process)}

(* start_server with the stop_server() call of line 73 left out *)
start_server_no_stop(c) ==
    {[c |-> c, raised |-> TRUE, err |-> <<"oserror">>]}
    \cup AfterGrace(Spawn(c))

(* MCPClient.start_server: the outcomes [c, raised, err]. *)
start_server(c) ==
    UNION {
      {[c |-> s, raised |-> TRUE, err |-> <<"oserror">>]}
      \cup AfterGrace(Spawn(s))
      : s \in stop_server(c)}

---------------------------------------------------------------------------
(* MCPClient._get_next_request_id *)

(* _get_next_request_id with the increment of line 122 left out *)
next_request_id_kept(c) == c.request_id

next_request_id(c) == c.request_id + 1

(* The texts send_jsonrpc_request builds *)

(* line 179 without the diagnostics *)
ServerExitedTextBare(stderr) == <<"server_exited">>

(* f"服务器已退出: {stderr}" *)
ServerExitedText(stderr) == <<"server_exited">> \o stderr

(* f"服务器没有返回响应: {stderr}" *)
NoResponseText(stderr) == <<"no_response">> \o stderr

(* line 194 without the server's message *)
JsonRpcErrorTextCodeOnly(e) == <<"jsonrpc_error", ToString(e.code)>>

(* f"JSON-RPC错误: {error_message} (代码: {error_code})" *)
JsonRpcErrorText(e) == <<"jsonrpc_error", e.message, ToString(e.code)>>

(* str(e) of TimeoutError("请求超时") and of the BrokenPipeError of a write *)
TimeoutText == <<"request_timeout">>

BrokenPipeText == <<"broken_pipe">>

(* The error values send_jsonrpc_request returns *)


(* {"error": {"message": f"无法解析响应: {response_json}", "code": -32700}} *)
ParseError(raw) ==
    [kind |-> "error", code |-> -32700, message |-> <<"parse_failed", raw>>]

(* {"error": {"message": f"请求超时: {str(e)}", "code": -32000}} *)
TimeoutValue(text) ==
    [kind |-> "error", code |-> -32000,
     message |-> <<"request_timeout">> \o text]

(* {"error": {"message": f"发送请求时出错: {str(e)}", "code": -32000}} *)
SendFailed(text) ==
    [kind |-> "error", code |-> -32000, message |-> <<"send_failed">> \o text]

(* The result payloads a server can answer a method with: the field the   *)
(* client looks for and its value, or a success response without it.      *)
ServerResults(method, canTool) ==
    {[field |-> "missing", val |-> "none"]} \cup
    CASE method = "createSession" ->
           {[field |-> "sessionId", val |-> s] : s \in SessionIds}
      [] method = "addMessage" ->
           {[field |-> "messageId", val |-> m] : m \in MessageIds}
      [] method = "getCompletion" ->
           {[field |-> "content", val |-> t] : t \in Contents}
           \cup {[field |-> "empty", val |-> "none"]}
           \cup (IF canTool
                 THEN {[field |-> "toolCall", val |-> t] : t \in ToolNames}
                 ELSE {})
      [] method = "callTool" ->
           {[field |-> "result", val |-> r] : r \in ToolResults}

(* What the line read from the child said, when it was JSON: the member *)
(* the caller looks for and its value (for an "error" member its message *)
(* and code), and the "id" member.                                       *)
NoAnswer ==
    [field |-> "none", val |-> "none", code |-> 0, id |-> 0, answers |-> 0,
     from |-> NoProcess]

(* stdout.readline() takes the first line of the pipe of the tracked     *)
(* instance: the response to the oldest request not yet answered to the  *)
(* client.                                                               *)
Readline(c) ==
    [line |-> [NoAnswer EXCEPT !.answers = Head(c.pipe), !.from = c.process],
     c |-> [c EXCEPT !.pipe = Tail(@)]]

(* The "id" member a response line can carry: the request's, or the one *)
(* of the request before it                                             *)
ResponseIds(req) == {req.id, req.id - 1}

(* What one call of send_jsonrpc_request leaves behind: the client after  *)
(* it, with lastResp the value returned and the answer it was made from.  *)
Outcome(c, event, v, root, ans, stderrAt) ==
    [c EXCEPT !.lastResp =
        [event |-> event, raised |-> FALSE, kind |-> v.kind, code |-> v.code,
         message |-> v.message, root |-> root, field |-> ans.field,
         val |-> ans.val, srvCode |-> ans.code, id |-> ans.id,
         answers |-> ans.answers, readFrom |-> ans.from,
         stderrAt |-> stderrAt, processAfter |-> c.process]]

(* except TimeoutError / except Exception: stop_server(), then the value *)
FailedWith(c, event, v, root, ans, stderrAt) ==
    {Outcome(s, event, v, root, ans, stderrAt) : s \in stop_server(c)}

Failed(c, event, v, root, stderrAt) ==
    FailedWith(c, event, v, root, NoAnswer, stderrAt)

(* alarm(0) and signal(SIGALRM, original_handler), lines 171-172 *)
CancelAlarm(c, original) ==
    [c EXCEPT !.alarmPending = FALSE, !.sigHandler = original]

(* signal.signal(SIGALRM, timeout_handler) without signal.alarm(timeout) *)
ArmAlarmHandlerOnly(c) == [c EXCEPT !.sigHandler = "timeout_handler"]

(* signal.signal(SIGALRM, timeout_handler); signal.alarm(self.timeout),  *)
(* lines 159-161, with the positive timeout of lines 32 and 396          *)
ArmAlarm(c) ==
    [c EXCEPT !.alarmPending = TRUE, !.sigHandler = "timeout_handler"]

(* The value of a call that has not returned yet *)
Pending == [kind |-> "none", code |-> 0, message |-> <<>>]

(* the except TimeoutError clause without its stop_server() call *)
TimedOutKept(c) ==
    {Outcome([c EXCEPT !.alarmPending = FALSE], "timeout",
             TimeoutValue(TimeoutText), TimeoutText, NoAnswer,
             c.stderr_output)}

(* The alarm goes off in readline: timeout_handler raises TimeoutError,  *)
(* caught at line 200                                                    *)
TimedOut(c) ==
    Failed([c EXCEPT !.alarmPending = FALSE], "timeout",
           TimeoutValue(TimeoutText), TimeoutText, c.stderr_output)

(* Lines 142-211 with a tracked process: build the request, arm the      *)
(* alarm, write, read one line, classify.  When no line comes the call   *)
(* stays in readline ("reading") until the alarm goes off.               *)
Exchange(c0, method, params, canTool) ==
    LET original == c0.sigHandler
        req == [id |-> next_request_id(c0), method |-> method,
                pid |-> c0.process, written |-> c0.process \in c0.alive,
                sessionId |-> params.sessionId,
                messageId |-> params.messageId, name |-> params.name,
                issuedAt |-> c0.issued,
                cachedFrom |-> IF c0.session_id = NoSession
                               THEN NoProcess ELSE c0.sessPid,
                cached |-> c0.session_id, handlerBefore |-> original]
        c == ArmAlarm([c0 EXCEPT !.request_id = next_request_id(c0),
                                  !.lastReq = req,
                                  !.pipe = IF req.written
                                           THEN Append(@, req.id) ELSE @])
        got == Readline(CancelAlarm(c, original))
    IN  IF c.process \notin c.alive
        THEN \* stdin.write on a pipe whose reader is gone: BrokenPipeError
             Failed(c, "broken_pipe", SendFailed(BrokenPipeText),
                    BrokenPipeText, c.stderr_output)
        ELSE \* the child stays silent: readline blocks
             {Outcome(c, "reading", Pending, <<>>, NoAnswer, c.stderr_output)}
             \cup
             \* the child exits after the write: readline returns, poll() is set
             UNION {Failed([CancelAlarm(c, original) EXCEPT
                               !.stderr_output = out,
                               !.alive = @ \ {c.process},
                               !.exitStatus = code],
                           "exited", SendFailed(ServerExitedText(out)),
                           ServerExitedText(out), out)
                    : out \in Drained(c.stderr_output, c.process), code \in ExitCodes}
             \cup
             \* an empty line while the child is still running
             UNION {FailedWith([got.c EXCEPT !.stderr_output = out],
                               "empty", SendFailed(NoResponseText(out)),
                               NoResponseText(out), got.line, out)
                    : out \in Drained(c.stderr_output, c.process)}
             \cup
             \* a line that is not JSON: returned without stop_server
             {Outcome(got.c, "malformed", ParseError(raw),
                      <<raw>>, got.line, c.stderr_output)
              : raw \in RawLines}
             \cup
             \* a response with an "error" member: raised, caught at line 206
             UNION {FailedWith(got.c, "remote_error",
                               SendFailed(JsonRpcErrorText(e)),
                               JsonRpcErrorText(e),
                               [got.line EXCEPT !.field = "error",
                                                !.val = e.message,
                                                !.code = e.code,
                                                !.id = req.id],
                               c.stderr_output)
                    : e \in RemoteErrors}
             \cup
             \* any other response is returned as it is
             {Outcome([got.c EXCEPT
                          !.issued = IF r.field = "sessionId"
                                     THEN @ \cup {r.val} ELSE @,
                          !.created = IF r.field = "sessionId"
                                      THEN r.val ELSE @],
                      "response",
                      [kind |-> "result", code |-> 0, message |-> <<>>],
                      <<>>,
                      [got.line EXCEPT !.field = r.field, !.val = r.val,
                                       !.id = i],
                      c.stderr_output)
              : r \in ServerResults(method, canTool), i \in ResponseIds(req)}

(* MCPClient.send_jsonrpc_request: start_server() when no process is     *)
(* tracked (its exception propagates: no request is built), then the     *)
(* exchange.                                                             *)
send_jsonrpc_request(c, method, params, canTool) ==
    IF c.process # NoProcess
    THEN Exchange(c, method, params, canTool)
    ELSE UNION {
           IF st.raised
           THEN {[st.c EXCEPT !.lastResp =
                    [NoResp EXCEPT !.event = "start_raised", !.raised = TRUE,
                                   !.message = st.err, !.root = st.err,
                                   !.stderrAt = st.c.stderr_output,
                                   !.processAfter = st.c.process]]}
           ELSE Exchange(st.c, method, params, canTool)
           : st \in start_server(c)}

---------------------------------------------------------------------------
(* The callers of send_jsonrpc_request *)

(* The error behind a response the caller rejects: the exception the    *)
(* dispatcher caught, or the missing member of a success response.       *)
ErrorOccurred(resp) ==
    IF resp.kind = "error" THEN resp.root ELSE <<"unknown_error">>

(* the lookup of the error message always falling back to its default *)
ErrorMsgDropped(resp) == <<"unknown_error">>

(* response.get("error", {}).get("message", "未知错误") *)
ErrorMsg(resp) ==
    IF resp.kind = "error" THEN resp.message ELSE <<"unknown_error">>

(* f"查询天气时出错: {str(e)}" and f"直接查询天气时出错: {str(e)}" *)
FacadeText(name, text) ==
    IF name = "query_weather" THEN <<"query_failed">> \o text
    ELSE <<"direct_query_failed">> \o text

(* a facade returning without its finally clause *)
finally_skipped(c) == {c}

(* finally: self.stop_server() *)

finally_stop(c) == stop_server(c)

NoRet == [kind |-> "none", text |-> <<>>]

(* An exception leaves the running method: a facade catches it and turns  *)
(* it into its return value, any other method lets it propagate.          *)
Raise(text, why) ==
    /\ cause' = why
    /\ IF op \in Facades
       THEN /\ ret' = [kind |-> "str", text |-> FacadeText(op, text)]
            /\ pc' = "finally"
       ELSE /\ ret' = [kind |-> "raise", text |-> text]
            /\ pc' = "idle"

(* return value *)
Return(kind, text) ==
    /\ ret' = [kind |-> kind, text |-> text]
    /\ pc' = IF op \in Facades THEN "finally" ELSE "idle"
    /\ UNCHANGED cause

(* The next request of the running method; "if not self.session_id:     *)
(* self.create_session()" comes first in add_message, call_tool and      *)
(* get_completion.                                                       *)
Goto(sid, next) ==
    /\ pc' = IF sid = NoSession THEN "ensure" ELSE next
    /\ cont' = next
    /\ UNCHANGED <<ret, cause>>

(* send_jsonrpc_request is waiting in readline for the response *)
Blocked ==
    /\ pc' = "reading"
    /\ UNCHANGED <<ret, cause>>

(* The text each caller puts in front of the error message *)
CallerFailedText(method) ==
    CASE method = "createSession" -> <<"create_session_failed">>
      [] method = "addMessage" -> <<"add_message_failed">>
      [] method = "getCompletion" -> <<"get_completion_failed">>
      [] method = "callTool" -> <<"call_tool_failed">>

(* a params dict built without the cached session id *)
SessionParamUnset(c) == NoSession

(* "sessionId": self.session_id, first member of every params dict *)
SessionParam(c) == c.session_id

(* The params each method sends *)
ParamsOf(method) ==
    CASE method = "createSession" -> NoParams
      [] method = "addMessage" ->
           [NoParams EXCEPT !.sessionId = SessionParam(Self)]
      [] method = "getCompletion" ->
           [NoParams EXCEPT !.sessionId = SessionParam(Self),
                            !.messageId = message_id]
      [] method = "callTool" ->
           [NoParams EXCEPT !.sessionId = SessionParam(Self),
                            !.name = tool]

(* call_tool called with a fixed tool instead of the toolCall's *)
tool_call_fixed(resp) == "get_weather_by_city"

(* tool_call = completion["toolCall"]; its name and arguments *)
tool_call(resp) == resp.val

(* A public method is called on the idle client. *)
Begin(name, mid) ==
    /\ pc = "idle"
    /\ nextPid <= MaxProcs
    /\ op' = name
    /\ message_id' = mid
    /\ tool' = IF name \in {"call_tool", "direct_query_weather"}
               THEN "get_weather_by_city" ELSE "none"
    /\ rounds' = 0
    /\ ret' = NoRet
    /\ cause' = <<>>
    /\ stopCalls' = 0
    /\ finallyStops' = 0
    /\ lastReq' = NoReq
    /\ lastResp' = NoResp

CallAddMessage ==
    /\ Begin("add_message", "none")
    /\ pc' = IF session_id = NoSession THEN "ensure" ELSE "addMessage"
    /\ cont' = "addMessage"
    /\ UNCHANGED <<process, session_id, stderr_output, request_id, alive,
                   exitStatus, nextPid, issued, sessPid, alarmPending,
                   sigHandler, pipe, created,
                   drain>>

CallQueryWeather ==
    /\ Begin("query_weather", "none")
    /\ pc' = IF session_id = NoSession THEN "ensure" ELSE "addMessage"
    /\ cont' = "addMessage"
    /\ UNCHANGED <<process, session_id, stderr_output, request_id, alive,
                   exitStatus, nextPid, issued, sessPid, alarmPending,
                   sigHandler, pipe, created,
                   drain>>

CallGetCompletion ==
    /\ \E mid \in MessageIds : Begin("get_completion", mid)
    /\ pc' = IF session_id = NoSession THEN "ensure" ELSE "getCompletion"
    /\ cont' = "getCompletion"
    /\ UNCHANGED <<process, session_id, stderr_output, request_id, alive,
                   exitStatus, nextPid, issued, sessPid, alarmPending,
                   sigHandler, pipe, created,
                   drain>>

CallCallTool ==
    /\ Begin("call_tool", "none")
    /\ pc' = IF session_id = NoSession THEN "ensure" ELSE "callTool"
    /\ cont' = "callTool"
    /\ UNCHANGED <<process, session_id, stderr_output, request_id, alive,
                   exitStatus, nextPid, issued, sessPid, alarmPending,
                   sigHandler, pipe, created,
                   drain>>

CallCreateSession ==
    /\ Begin("create_session", "none")
    /\ pc' = "createSession"
    /\ cont' = "none"
    /\ UNCHANGED <<process, session_id, stderr_output, request_id, alive,
                   exitStatus, nextPid, issued, sessPid, alarmPending,
                   sigHandler, pipe, created,
                   drain>>

(* direct_query_weather starts with an unconditional create_session() *)
CallDirectQueryWeather ==
    /\ Begin("direct_query_weather", "none")
    /\ pc' = "createSession"
    /\ cont' = "none"
    /\ UNCHANGED <<process, session_id, stderr_output, request_id, alive,
                   exitStatus, nextPid, issued, sessPid, alarmPending,
                   sigHandler, pipe, created,
                   drain>>

(* MCPClient.start_server called by the user *)
CallStartServer ==
    /\ pc = "idle"
    /\ nextPid <= MaxProcs
    /\ \E st \in start_server([Self EXCEPT !.stopCalls = 0, !.lastReq = NoReq,
                                         !.lastResp = NoResp]) :
         /\ Becomes(st.c)
         /\ ret' = IF st.raised THEN [kind |-> "raise", text |-> st.err]
                   ELSE NoRet
         /\ cause' = st.err
    /\ op' = "start_server"
    /\ pc' = "idle"
    /\ cont' = "none"
    /\ rounds' = 0
    /\ message_id' = "none"
    /\ tool' = "none"
    /\ finallyStops' = 0

(* MCPClient.stop_server called by the user *)
CallStopServer ==
    /\ pc = "idle"
    /\ \E c \in stop_server([Self EXCEPT !.stopCalls = 0, !.lastReq = NoReq,
                                        !.lastResp = NoResp]) :
         Becomes(c)
    /\ op' = "stop_server"
    /\ pc' = "idle"
    /\ cont' = "none"
    /\ rounds' = 0
    /\ message_id' = "none"
    /\ tool' = "none"
    /\ ret' = NoRet
    /\ cause' = <<>>
    /\ finallyStops' = 0

---------------------------------------------------------------------------
(* One request of the running method and the caller's code after it.     *)
(* outs is the set of outcomes of the send_jsonrpc_request call.         *)

(* MCPClient.create_session *)
CreateSessionFrom(outs) ==
    /\ pc \in {"ensure", "createSession"}
    /\ \E c \in outs :
         LET resp == c.lastResp
         IN  IF resp.event = "reading"
             THEN Becomes(c) /\ Blocked /\ UNCHANGED cont
             ELSE IF resp.raised
             THEN Becomes(c) /\ Raise(resp.message, resp.root)
                  /\ UNCHANGED cont
             ELSE IF resp.kind = "result" /\ resp.field = "sessionId"
             THEN /\ Becomes([c EXCEPT !.session_id = resp.val,
                                       !.sessPid = c.process])
                  /\ IF pc = "ensure"
                     THEN pc' = cont /\ UNCHANGED <<cont, ret, cause>>
                     ELSE IF op = "direct_query_weather"
                     THEN Goto(resp.val, "callTool")
                     ELSE Return("value", <<resp.val>>) /\ UNCHANGED cont
             ELSE Becomes(c)
                  /\ Raise(<<"create_session_failed">> \o ErrorMsg(resp),
                           ErrorOccurred(resp))
                  /\ UNCHANGED cont
    /\ UNCHANGED <<op, rounds, message_id, tool, finallyStops>>

(* MCPClient.add_message from line 245 *)
AddMessageFrom(outs) ==
    /\ pc = "addMessage"
    /\ \E c \in outs :
         LET resp == c.lastResp
         IN  /\ Becomes(c)
             /\ IF resp.event = "reading"
                THEN Blocked /\ UNCHANGED <<cont, message_id>>
                ELSE IF resp.raised
                THEN Raise(resp.message, resp.root)
                     /\ UNCHANGED <<cont, message_id>>
                ELSE IF resp.kind = "result" /\ resp.field = "messageId"
                THEN IF op = "query_weather"
                     THEN Goto(c.session_id, "getCompletion")
                          /\ message_id' = resp.val
                     ELSE Return("value", <<resp.val>>)
                          /\ UNCHANGED <<cont, message_id>>
                ELSE Raise(<<"add_message_failed">> \o ErrorMsg(resp),
                           ErrorOccurred(resp))
                     /\ UNCHANGED <<cont, message_id>>
    /\ UNCHANGED <<op, rounds, tool, finallyStops>>

(* MCPClient.get_completion from line 310 up to its call of call_tool or *)
(* its return                                                            *)
GetCompletionFrom(outs) ==
    /\ pc = "getCompletion"
    /\ \E c \in outs :
         LET resp == c.lastResp
         IN  /\ Becomes(c)
             /\ IF resp.event = "reading"
                THEN Blocked /\ UNCHANGED <<cont, tool>>
                ELSE IF resp.raised
                THEN Raise(resp.message, resp.root) /\ UNCHANGED <<cont, tool>>
                ELSE IF resp.kind = "result" /\ resp.field = "toolCall"
                THEN Goto(c.session_id, "callTool")
                     /\ tool' = tool_call(resp)
                ELSE IF resp.kind = "result" /\ resp.field = "content"
                THEN Return("str", <<resp.val>>) /\ UNCHANGED <<cont, tool>>
                ELSE IF resp.kind = "result" /\ resp.field = "empty"
                THEN Return("str", <<"no_content">>) /\ UNCHANGED <<cont, tool>>
                ELSE Raise(<<"get_completion_failed">> \o ErrorMsg(resp),
                           ErrorOccurred(resp))
                     /\ UNCHANGED <<cont, tool>>
    /\ UNCHANGED <<op, rounds, message_id, finallyStops>>

(* MCPClient.call_tool from line 279; inside get_completion its result   *)
(* is dropped and get_completion(message_id) is called again.            *)
CallToolFrom(outs) ==
    /\ pc = "callTool"
    /\ \E c \in outs :
         LET resp == c.lastResp
         IN  /\ Becomes(c)
             /\ IF resp.event = "reading"
                THEN Blocked /\ UNCHANGED <<cont, rounds>>
                ELSE IF resp.raised
                THEN Raise(resp.message, resp.root)
                     /\ UNCHANGED <<cont, rounds>>
                ELSE IF resp.kind = "result" /\ resp.field = "result"
                THEN IF op \in {"get_completion", "query_weather"}
                     THEN Goto(c.session_id, "getCompletion")
                          /\ rounds' = rounds + 1
                     ELSE Return(IF op = "direct_query_weather"
                                 THEN "str" ELSE "value", <<resp.val>>)
                          /\ UNCHANGED <<cont, rounds>>
                ELSE Raise(<<"call_tool_failed">> \o ErrorMsg(resp),
                           ErrorOccurred(resp))
                     /\ UNCHANGED <<cont, rounds>>
    /\ UNCHANGED <<op, message_id, tool, finallyStops>>

CreateSession ==
    /\ request_id < MaxRequests
    /\ CreateSessionFrom(
         send_jsonrpc_request(Self, "createSession", ParamsOf("createSession"),
                              FALSE))

AddMessage ==
    /\ request_id < MaxRequests
    /\ AddMessageFrom(
         send_jsonrpc_request(Self, "addMessage", ParamsOf("addMessage"),
                              FALSE))

GetCompletion ==
    /\ request_id < MaxRequests
    /\ GetCompletionFrom(
         send_jsonrpc_request(Self, "getCompletion",
                              ParamsOf("getCompletion"), rounds < MaxRounds))

CallTool ==
    /\ request_id < MaxRequests
    /\ CallToolFrom(send_jsonrpc_request(Self, "callTool", ParamsOf("callTool"),
                              FALSE))

(* The deadline passes while send_jsonrpc_request waits in readline: the *)
(* call returns the timeout value and its caller raises.                 *)
DeadlineExpires ==
    /\ pc = "reading"
    /\ alarmPending
    /\ sigHandler = "timeout_handler"
    /\ \E c \in TimedOut(Self) :
         /\ Becomes(c)
         /\ Raise(CallerFailedText(lastReq.method) \o ErrorMsg(c.lastResp),
                  ErrorOccurred(c.lastResp))
    /\ UNCHANGED <<op, cont, rounds, message_id, tool, finallyStops>>

(* The finally clause of query_weather and direct_query_weather *)
FacadeFinally ==
    /\ pc = "finally"
    /\ \E c \in finally_stop(Self) :
         /\ Becomes(c)
         /\ finallyStops' = finallyStops + (c.stopCalls - stopCalls)
    /\ pc' = "idle"
    /\ UNCHANGED <<op, cont, rounds, message_id, tool, ret, cause>>

---------------------------------------------------------------------------
(* The environment *)

(* The tracked child exits on its own.  An exit that ends a pending read *)
(* is the "exited" outcome of the exchange.                              *)
ChildExits ==
    /\ pc # "reading"
    /\ process \in alive
    /\ alive' = alive \ {process}
    /\ \E code \in ExitCodes : exitStatus' = code
    /\ UNCHANGED <<process, session_id, stderr_output, request_id, nextPid,
                   issued, sessPid, alarmPending, sigHandler, pipe, created,
                   drain, tool, stopCalls,
                   lastReq, lastResp, op, pc, cont, rounds, message_id, ret,
                   cause, finallyStops>>

(* MCPClient._read_stderr: one turn of the drain loop *)
ReadStderr ==
    /\ process # NoProcess
    /\ exitStatus \in {Running, 0}
    /\ Len(stderr_output) < MaxStderr
    /\ stderr_output' = Append(stderr_output, DiagLine(process))
    /\ UNCHANGED <<process, session_id, request_id, alive, exitStatus,
                   nextPid, issued, sessPid, alarmPending, sigHandler,
                   pipe, created, drain, tool, stopCalls, lastReq, lastResp, op, pc, cont, rounds,
                   message_id, ret, cause, finallyStops>>

---------------------------------------------------------------------------
(* MCPClient._read_stderr, statement by statement, for the thread that   *)
(* was started with the instance k.  self.process is read anew at each   *)
(* use.                                                                  *)

DrainStep(k, from, to) ==
    /\ drain[k].pc = from
    /\ drain' = [drain EXCEPT ![k] = to]

DrainUnchanged ==
    UNCHANGED <<process, session_id, request_id, alive, exitStatus, nextPid,
                issued, sessPid, alarmPending, sigHandler, pipe, created, tool,
                stopCalls, lastReq, lastResp, op, pc, cont, rounds,
                message_id, ret, cause, finallyStops>>

(* while self.process ... *)
DrainTest(k) ==
    /\ DrainStep(k, "test",
                 IF process = NoProcess
                 THEN [pc |-> "done", src |-> NoProcess]
                 ELSE [pc |-> "poll", src |-> NoProcess])
    /\ UNCHANGED stderr_output
    /\ DrainUnchanged

(* ... and not self.process.poll(): None and 0 keep the loop going; on a *)
(* cleared handle the attribute lookup raises AttributeError             *)
DrainPoll(k) ==
    /\ DrainStep(k, "poll",
                 IF process = NoProcess
                 THEN [pc |-> "crashed", src |-> NoProcess]
                 ELSE IF process \in alive \/ exitStatus = 0
                 THEN [pc |-> "read", src |-> NoProcess]
                 ELSE [pc |-> "done", src |-> NoProcess])
    /\ UNCHANGED stderr_output
    /\ DrainUnchanged

(* self.process.stderr.readline is called: the pipe of the instance      *)
(* tracked at this moment                                                *)
DrainRead(k) ==
    /\ DrainStep(k, "read",
                 IF process = NoProcess
                 THEN [pc |-> "crashed", src |-> NoProcess]
                 ELSE [pc |-> "readline", src |-> process])
    /\ UNCHANGED stderr_output
    /\ DrainUnchanged

(* readline returns a line of the pipe *)
DrainLine(k) ==
    /\ Len(stderr_output)
         + Cardinality({j \in DOMAIN drain : drain[j].pc = "append"})
           < MaxStderr
    /\ DrainStep(k, "readline", [pc |-> "append", src |-> drain[k].src])
    /\ UNCHANGED stderr_output
    /\ DrainUnchanged

(* readline returns '' at the end of the pipe of an instance that is gone *)
DrainEof(k) ==
    /\ drain[k].src \notin alive
    /\ DrainStep(k, "readline", [pc |-> "test", src |-> NoProcess])
    /\ UNCHANGED stderr_output
    /\ DrainUnchanged

(* self.stderr_output.append(line.strip()) *)
DrainAppend(k) ==
    /\ DrainStep(k, "append", [pc |-> "test", src |-> NoProcess])
    /\ stderr_output' = Append(stderr_output, DiagLine(drain[k].src))
    /\ DrainUnchanged

---------------------------------------------------------------------------
(* MCPClient.__init__ *)
Init ==
    /\ process = NoProcess
    /\ session_id = NoSession
    /\ stderr_output = <<>>
    /\ request_id = 0
    /\ alive = {}
    /\ exitStatus = Running
    /\ nextPid = 1
    /\ issued = {}
    /\ sessPid = NoProcess
    /\ alarmPending = FALSE
    /\ sigHandler = "SIG_DFL"
    /\ pipe = <<>>
    /\ created = NoSession
    /\ drain = [k \in 1..MaxProcs |-> NoThread]
    /\ tool = "none"
    /\ stopCalls = 0
    /\ lastReq = NoReq
    /\ lastResp = NoResp
    /\ op = "none"
    /\ pc = "idle"
    /\ cont = "none"
    /\ rounds = 0
    /\ message_id = "none"
    /\ ret = NoRet
    /\ cause = <<>>
    /\ finallyStops = 0

Next ==
    \/ CallAddMessage
    \/ CallQueryWeather
    \/ CallGetCompletion
    \/ CallCallTool
    \/ CallCreateSession
    \/ CallDirectQueryWeather
    \/ CallStartServer
    \/ CallStopServer
    \/ CreateSession
    \/ AddMessage
    \/ GetCompletion
    \/ CallTool
    \/ DeadlineExpires
    \/ FacadeFinally
    \/ ChildExits
    \/ ReadStderr

Spec == Init /\ [][Next]_vars

(* The alarm armed at line 161 is delivered once its time has passed. *)
SpecDeadline == Spec /\ WF_vars(DeadlineExpires)

(* The client driven only through add_message, get_completion,          *)
(* call_tool, query_weather and direct_query_weather.                   *)
NextSessionUse ==
    \/ CallAddMessage
    \/ CallQueryWeather
    \/ CallGetCompletion
    \/ CallCallTool
    \/ CallDirectQueryWeather
    \/ CreateSession
    \/ AddMessage
    \/ GetCompletion
    \/ CallTool
    \/ DeadlineExpires
    \/ FacadeFinally
    \/ ChildExits
    \/ ReadStderr

SpecSessionUse == Init /\ [][NextSessionUse]_vars

(* start_server and stop_server with the drain threads running *)
NextDrain ==
    \/ CallStartServer
    \/ CallStopServer
    \/ ChildExits
    \/ \E k \in 1..MaxProcs : DrainTest(k)
    \/ \E k \in 1..MaxProcs : DrainPoll(k)
    \/ \E k \in 1..MaxProcs : DrainRead(k)
    \/ \E k \in 1..MaxProcs : DrainLine(k)
    \/ \E k \in 1..MaxProcs : DrainEof(k)
    \/ \E k \in 1..MaxProcs : DrainAppend(k)

SpecDrain == Init /\ [][NextDrain]_vars

---------------------------------------------------------------------------
(* The client against a stub server that answers every request, and      *)
(* every getCompletion with a completion carrying a toolCall.            *)

Stub(c) ==
    /\ c.lastResp.event = "response"
    /\ c.lastResp.field \in {"sessionId", "messageId", "toolCall", "result"}

StubCreateSession ==
    CreateSessionFrom(
      {c \in send_jsonrpc_request(Self, "createSession", ParamsOf("createSession"),
                              FALSE) :
         Stub(c)})

StubAddMessage ==
    AddMessageFrom(
      {c \in send_jsonrpc_request(Self, "addMessage", ParamsOf("addMessage"),
                              FALSE) :
         Stub(c)})

StubGetCompletion ==
    /\ rounds < LoopCap
    /\ GetCompletionFrom(
         {c \in send_jsonrpc_request(Self, "getCompletion",
                                   ParamsOf("getCompletion"), TRUE) :
            Stub(c)})

StubCallTool ==
    CallToolFrom(
      {c \in send_jsonrpc_request(Self, "callTool", ParamsOf("callTool"),
                              FALSE) :
         Stub(c)})

NextToolLoop ==
    \/ CallQueryWeather
    \/ CallGetCompletion
    \/ StubCreateSession
    \/ StubAddMessage
    \/ StubGetCompletion
    \/ StubCallTool
    \/ ReadStderr

SpecToolLoop == Init /\ [][NextToolLoop]_vars

---------------------------------------------------------------------------
(* Properties *)

Returned(name) == pc = "idle" /\ op = name

(* C1: when query_weather or direct_query_weather has returned, on any   *)
(* path, the client tracks no process and no child it spawned is alive.  *)
C1_FacadeTeardown ==
    (pc = "idle" /\ op \in Facades) => (process = NoProcess /\ alive = {})

(* direct_query_weather has returned the tool's result; a child had been *)
(* spawned and written to.                                               *)
C1_Witness ==
    /\ Returned("direct_query_weather")
    /\ ret = [kind |-> "str", text |-> <<"temp20">>]
    /\ lastReq.written
    /\ nextPid > 1

(* C2: a facade never raises; it returns a string, and when an inner     *)
(* call failed the string contains the text of the error that occurred.  *)
C2_FacadeReturnsErrorText ==
    (pc = "idle" /\ op \in Facades) =>
        (ret.kind = "str" /\ Contains(ret.text, cause))

(* query_weather has returned after the server answered with an error    *)
(* object.                                                               *)
C2_Witness ==
    /\ Returned("query_weather")
    /\ lastResp.event = "remote_error"
    /\ cause # <<>>
    /\ Contains(ret.text, <<"bad state">>)

(* C3 as claimed: within one query_weather call stop_server is invoked   *)
(* exactly once, counting every invocation.                              *)
C3_StopInvokedOnce ==
    Returned("query_weather") => stopCalls = 1

(* C3 as amended: query_weather's finally clause invokes stop_server     *)
(* exactly once, so at least one invocation happens in every call; the   *)
(* total also counts those of start_server and of the failure paths.     *)
C3_FinallyStopsOnce ==
    Returned("query_weather") => (finallyStops = 1 /\ stopCalls >= 1)

(* query_weather has returned its result on a client that had to start   *)
(* the server: start_server and the finally clause each invoked stop.    *)
C3_Witness ==
    /\ Returned("query_weather")
    /\ cause = <<>>
    /\ ret.kind = "str"
    /\ stopCalls = 2
    /\ finallyStops = 1

(* C4: for one message at most ten tool calls are resolved (then         *)
(* get_completion fails with ToolLoopExceeded).                          *)
C4_ToolLoopBounded ==
    rounds <= 10

(* C5: under any sequence of add_message, get_completion, call_tool,     *)
(* query_weather and direct_query_weather, no createSession is written   *)
(* to a live process instance that has already returned the cached       *)
(* session id.                                                           *)
C5_SessionCreatedOnce ==
    ~(/\ lastReq.method = "createSession"
      /\ lastReq.written
      /\ lastReq.cachedFrom = lastReq.pid)

(* C6: the sessionId of every addMessage, getCompletion and callTool     *)
(* request written to a process was returned by that process instance.   *)
C6_SessionOfSameProcess ==
    (lastReq.written /\ lastReq.method \in {"addMessage", "getCompletion", "callTool"})
        => lastReq.sessionId \in lastReq.issuedAt

(* C7: whenever send_jsonrpc_request returns an error value, the process *)
(* handle is empty on return.                                            *)
C7_FailureTearsDown ==
    lastResp.kind = "error" => lastResp.processAfter = NoProcess

(* C8: at most one child of the client is alive, and it is the tracked   *)
(* one.                                                                  *)
C8_SingleChild ==
    Cardinality(alive) <= 1 /\ alive \subseteq {process}

(* start_server has returned for the second time: the second instance is *)
(* the one alive.                                                        *)
C8_Witness ==
    /\ Returned("start_server")
    /\ ret.kind = "none"
    /\ process = 2
    /\ alive = {2}

(* C9: each request built gets the previous id plus one, whether or not  *)
(* its send fails and whichever process it goes to; the counter only     *)
(* moves when a request is built.                                        *)
C9_IdsSequential ==
    [][/\ request_id' \in {request_id, request_id + 1}
       /\ (lastReq' # lastReq /\ lastReq'.method # "none")
             => (request_id' = request_id + 1 /\ lastReq'.id = request_id')
       /\ (request_id' # request_id) => lastReq'.id = request_id']_vars

(* The third request of the client went to its second process, after a   *)
(* failed send.                                                          *)
C9_Witness ==
    /\ lastReq.id = 3
    /\ lastReq.pid = 2
    /\ request_id = 3

(* C10: when the child exits between the write and the read, the call    *)
(* returns an error value with code -32000 whose message contains the    *)
(* buffered diagnostics, and the handle is empty.                        *)
C10_ExitReported ==
    lastResp.event = "exited" =>
        /\ ~lastResp.raised
        /\ lastResp.kind = "error"
        /\ lastResp.code = -32000
        /\ Contains(lastResp.message, lastResp.stderrAt)
        /\ lastResp.processAfter = NoProcess

(* The child exited after the write, with diagnostics in the buffer.     *)
C10_Witness ==
    /\ lastResp.event = "exited"
    /\ lastReq.written
    /\ lastResp.stderrAt # <<>>
    /\ stderr_output = lastResp.stderrAt

---------------------------------------------------------------------------
(* C11: a request that was written and gets no response line within the *)
(* deadline does not block forever: the call returns the timeout error   *)
(* value with code -32000, and the process has been stopped and the      *)
(* handle is empty when it returns.                                      *)
C11_TimeoutReturns ==
    (pc = "reading")
      ~> (/\ pc # "reading"
          /\ lastResp.event = "timeout"
          /\ lastResp.kind = "error"
          /\ lastResp.code = -32000
          /\ Contains(lastResp.message, TimeoutText)
          /\ lastResp.processAfter = NoProcess
          /\ stopCalls >= 1)

C11_Witness ==
    /\ lastReq.written
    /\ lastResp.event = "timeout"
    /\ lastResp.code = -32000
    /\ process = NoProcess
    /\ ret.kind = "raise"

---------------------------------------------------------------------------
(* C12: the error value of send_jsonrpc_request carries code -32700 for *)
(* a line that is not JSON, code -32000 for the failures the client     *)
(* makes up itself (write failure, timeout, exit, empty line), and for  *)
(* a response with an "error" member the server's own code and message, *)
(* unchanged.                                                           *)
C12_ErrorCodes ==
    /\ lastResp.event = "malformed"
         => lastResp.kind = "error" /\ lastResp.code = -32700
    /\ lastResp.event \in {"broken_pipe", "timeout", "exited", "empty"}
         => lastResp.kind = "error" /\ lastResp.code = -32000
    /\ lastResp.event = "remote_error"
         => /\ lastResp.kind = "error"
            /\ lastResp.code = lastResp.srvCode
            /\ lastResp.message = <<lastResp.val>>

---------------------------------------------------------------------------
(* C13: when the server answers a request of create_session,            *)
(* add_message, get_completion or call_tool with an "error" member      *)
(* whose message is m, the operation raises an error whose text         *)
(* contains m, and does not return a value.                             *)
DirectOps == {"create_session", "add_message", "get_completion", "call_tool"}

C13_RemoteErrorRaises ==
    (lastResp.event = "remote_error" /\ op \in DirectOps)
      => /\ pc = "idle"
         /\ ret.kind = "raise"
         /\ Contains(ret.text, <<lastResp.val>>)

C13_Witness ==
    /\ op = "get_completion"
    /\ lastReq.method = "getCompletion"
    /\ lastResp.event = "remote_error"
    /\ lastResp.val = "bad state"
    /\ ret.kind = "raise"
    /\ Contains(ret.text, <<"bad state">>)

---------------------------------------------------------------------------
(* C14: every addMessage, getCompletion and callTool request is sent    *)
(* after a createSession has succeeded and carries, as sessionId, the   *)
(* session id the most recent successful createSession returned; a      *)
(* createSession success response without a sessionId makes the caller  *)
(* raise and leaves the cached session id as it was.                    *)
C14_SessionCached ==
    /\ lastReq.method \in {"addMessage", "getCompletion", "callTool"}
         => /\ created # NoSession
            /\ lastReq.sessionId = created
    /\ (/\ lastReq.method = "createSession"
        /\ lastResp.event = "response"
        /\ lastResp.field = "missing")
         => /\ session_id = lastReq.cached
            /\ cause = <<"unknown_error">>
            /\ ret.kind = IF op \in Facades THEN "str" ELSE "raise"

(* a callTool request written with the session id createSession returned *)
C14_Witness ==
    /\ lastReq.method = "callTool"
    /\ lastReq.written
    /\ created = "xyz"
    /\ lastReq.sessionId = "xyz"

---------------------------------------------------------------------------
(* C15: in get_completion every completion with a toolCall is followed *)
(* by exactly one callTool request with that toolCall's name and        *)
(* arguments and then by a getCompletion request with the same          *)
(* messageId; the value returned is the content of the first            *)
(* completion without a toolCall, or the empty-content marker; the      *)
(* requests of one query_weather come in the order createSession (if    *)
(* no session is cached), addMessage, then getCompletion and callTool   *)
(* in turn, ending with a getCompletion.                                *)
LoopOps == {"get_completion", "query_weather"}

C15_NextRequest ==
    LET prev == lastReq
        new == lastReq'
    IN  /\ prev.method = "none"
             => new.method \in {"createSession",
                                IF op = "query_weather"
                                THEN "addMessage" ELSE "getCompletion"}
        /\ prev.method = "createSession"
             => /\ prev.cached = NoSession
                /\ new.method = IF op = "query_weather"
                                THEN "addMessage" ELSE "getCompletion"
        /\ prev.method = "addMessage"
             => /\ new.method = "getCompletion"
                /\ lastResp.field = "messageId"
                /\ new.messageId = lastResp.val
        /\ prev.method = "getCompletion"
             => /\ new.method = "callTool"
                /\ lastResp.field = "toolCall"
                /\ new.name = lastResp.val
        /\ prev.method = "callTool"
             => /\ new.method = "getCompletion"
                /\ new.messageId = message_id
        /\ new.method = "getCompletion" => new.messageId = message_id'

C15_Returned ==
    (op \in LoopOps /\ ret.kind = "str" /\ cause = <<>>)
      => /\ lastReq.method = "getCompletion"
         /\ lastResp.field \in {"content", "empty"}
         /\ ret.text = IF lastResp.field = "content"
                        THEN <<lastResp.val>> ELSE <<"no_content">>

C15_ToolLoop ==
    [][/\ (op \in LoopOps /\ op' = op /\ lastReq' # lastReq
            /\ lastReq' # NoReq)
          => C15_NextRequest
       /\ C15_Returned']_vars

(* get_completion has returned the content after one tool call *)
C15_Witness ==
    /\ op = "get_completion"
    /\ pc = "idle"
    /\ rounds = 1
    /\ tool = "get_forecast"
    /\ lastReq.method = "getCompletion"
    /\ lastReq.messageId = "m1"
    /\ ret = [kind |-> "str", text |-> <<"sunny">>]

---------------------------------------------------------------------------
(* C16: a response whose id differs from the id of the request is never *)
(* returned by send_jsonrpc_request as a successful response.           *)
C16_IdChecked ==
    (lastResp.event = "response" /\ lastResp.kind = "result")
      => lastResp.id = lastReq.id

---------------------------------------------------------------------------
(* C17: start_server raises the start failure, with the diagnostics     *)
(* read so far in its text, when the new process has exited by the end  *)
(* of the grace period; otherwise it returns with the process tracked   *)
(* and running, and the diagnostic buffer holds only output of the      *)
(* newly started process.                                               *)
C17_StartOutcome ==
    op = "start_server"
      => /\ (ret.kind = "raise" /\ ret.text # <<"oserror">>)
              => /\ process \notin alive
                 /\ Head(ret.text) = "start_failed"
                 /\ \A i \in 2..Len(ret.text) :
                      ret.text[i] = DiagLine(nextPid - 1)
         /\ ret.kind = "none"
              => /\ process = nextPid - 1
                 /\ process \in alive \/ exitStatus \in ExitCodes
         /\ process # NoProcess
              => \A i \in 1..Len(stderr_output) :
                   stderr_output[i] = DiagLine(process)

---------------------------------------------------------------------------
(* C18: a live process has exactly one drain thread; the thread reads   *)
(* only the stderr of the process it was started with; it has ended     *)
(* when a later process is started, stop_server having joined it; and   *)
(* it never uses the process handle after the handle was cleared.       *)
C18_DrainDiscipline ==
    \A k \in 1..MaxProcs :
      /\ drain[k].pc # "crashed"
      /\ drain[k].src \in {NoProcess, k}
      /\ process \notin {NoProcess, k} => drain[k].pc \in {"none", "done"}
      /\ (process = k /\ k \in alive)
           => drain[k].pc \notin {"none", "done", "crashed"}

---------------------------------------------------------------------------
(* C19: whenever send_jsonrpc_request has returned, on every path, the  *)
(* alarm it armed is no longer pending and the SIGALRM handler that was *)
(* installed before the call is installed again.                        *)
C19_AlarmRestored ==
    lastResp.event \notin {"none", "reading", "start_raised"}
      => /\ ~alarmPending
         /\ sigHandler = lastReq.handlerBefore

---------------------------------------------------------------------------
(* C20: after start_server has failed because the child exited during   *)
(* the grace period the client tracks no process handle, so that the    *)
(* next send starts a new process and never writes to the exited one.   *)
C20_DeadHandleDropped ==
    /\ (op = "start_server" /\ ret.kind = "raise") => process = NoProcess
    /\ lastResp.event = "start_raised"
         => lastResp.processAfter = NoProcess

---------------------------------------------------------------------------
(* C21: with a server that writes one response line per request, in     *)
(* order, the line send_jsonrpc_request takes for a request is the      *)
(* response to that request, read from the process the request was      *)
(* written to; the late response to a timed-out or failed request is    *)
(* never taken as the response of a later request.                      *)
C21_Positional ==
    lastResp.event \in {"response", "remote_error", "malformed", "empty"}
      => /\ lastReq.written
         /\ lastResp.answers = lastReq.id
         /\ lastResp.readFrom = lastReq.pid

(* a request answered on the process started after an earlier request   *)
(* had timed out or failed at the write                                 *)
C21_Witness ==
    /\ lastResp.event = "response"
    /\ lastReq.handlerBefore = "timeout_handler"
    /\ lastReq.pid = 2
    /\ lastReq.id = 2
    /\ lastResp.answers = 2
    /\ lastResp.readFrom = 2
    /\ pipe = <<>>

====
